---- MODULE Spec2Model ----
(***************************************************************************)
(* Model of the FKS execution service (src/services/execution/src/main.rs) *)
(*                                                                         *)
(* The process is modelled as: main's position (pc), the instant stored in *)
(* AppState, the TCP listener owned by the serve future, and one record    *)
(* per client connection.  axum::serve accepts connections inside the      *)
(* serve future and runs every accepted connection as its own spawned      *)
(* task, so a connection task is not owned by the serve future.            *)
(*                                                                         *)
(* A connection record keeps what its task holds: nothing while idle, the  *)
(* request body and the locals of build_signal while the handler is        *)
(* suspended in its sleep, and                                             *)
(* the response last written once it has answered.                         *)
(*                                                                         *)
(* Units: the monotonic clock (Instant) counts milliseconds.  Prices and   *)
(* ema are fixed-point numbers in tenths (4419.5 is 44195); a quotient is  *)
(* kept as a reduced fraction <<numerator, denominator>>.                  *)
(***************************************************************************)
EXTENDS Integers, Sequences, FiniteSets, TLC

VARIABLES
    pc,         \* position of main
    listen,     \* Cli.listen as given on the command line
    appStart,   \* AppState.start (-1 before it is constructed)
    listener,   \* "none" | "bound" | "dropped"
    handlers,   \* TRUE once tokio has installed the SIGINT/SIGTERM handlers
    cause,      \* which branch of the select! completed
    conn,       \* per connection: the connection task and its handler future
    now,        \* the monotonic clock, in ms
    healthMax   \* history: largest uptime any health response has reported

vars == <<pc, listen, appStart, listener, handlers, cause, conn, now, healthMax>>

----------------------------------------------------------------------------
(* Bounds of the model *)

MaxLen == 2
MaxTime == 6

Conns == {"c1", "c2"}
TickSteps == {5, 1000}
PriceVals == {1000, 2005}
Symbols == {"NQ"}

----------------------------------------------------------------------------
(* Option<T>: None is the empty sequence, Some(x) the one-element sequence *)

None == <<>>
Some(x) == <<x>>

RECURSIVE SeqsUpTo(_, _)
SeqsUpTo(S, n) ==
    IF n = 0 THEN {<<>>}
    ELSE LET shorter == SeqsUpTo(S, n - 1)
         IN shorter \cup {Append(s, x) : s \in {t \in shorter : Len(t) = n - 1}, x \in S}

(* the decoded value of a well-formed body: struct SignalRequest *)
SignalRequest ==
    [symbol : {None} \cup {Some(s) : s \in Symbols},
     prices : {None} \cup {Some(p) : p \in SeqsUpTo(PriceVals, MaxLen)}]

(* what a POST body can be: a decodable SignalRequest or one of the        *)
(* failures of the Json extractor                                          *)
Bodies ==
    {[kind |-> "json", value |-> v] : v \in SignalRequest}
    \cup {[kind |-> k] : k \in {"syntax_error", "data_error", "no_content_type"}}

(* a request without a body (GET) *)
NoBody == [kind |-> "none"]

(* the listen strings tried: host part and port part of "host:port" *)
ListenArgs ==
    {[host |-> "0.0.0.0", port |-> 4700],
     [host |-> "localhost", port |-> 4700],
     [host |-> "0.0.0.0", port |-> 65536],
     [host |-> "0.0.0.0", port |-> -1]}

IpLiterals == {"0.0.0.0", "127.0.0.1", "::1"}

(* str::parse::<SocketAddr>: an IP literal and a port that fits u16 *)
AddrParses(a) == a.host \in IpLiterals /\ a.port \in 0..65535

NoListen == [host |-> "", port |-> -1]

----------------------------------------------------------------------------
(* Signal computation *)

RSI == 55
Notional == 150000
RiskPercent == 1
SleepMs == 5
MsPerSec == 1000

DefaultSymbol == "ES"
DefaultPrices == <<44200, 44220, 44195, 44250, 44240>>

RECURSIVE Sum(_)
Sum(s) == IF s = <<>> THEN 0 ELSE Head(s) + Sum(Tail(s))

RECURSIVE Gcd(_, _)
Gcd(a, b) == IF b = 0 THEN a ELSE Gcd(b, a % b)

(* a / b as a reduced fraction; 0/0 is the not-a-number value of f64 *)
Div(a, b) ==
    IF b = 0 THEN <<0, 0>>
    ELSE LET g == Gcd(a, b) IN IF g = 0 THEN <<0, 1>> ELSE <<a \div g, b \div g>>

(* faulty variant of Zip: a missing symbol is filled with the default      *)
(* symbol instead of voiding the pair                                      *)
ZipMut(a, b) ==
    IF b # None
    THEN Some(<<IF a # None THEN a[1] ELSE DefaultSymbol, b[1]>>)
    ELSE None

(* Option::zip *)
Zip(a, b) == IF a # None /\ b # None THEN Some(<<a[1], b[1]>>) ELSE None

(* faulty variant of SelectInput: the match arm without its is_empty guard *)
SelectInputMut(input) ==
    IF input # None
    THEN [symbol |-> input[1][1], prices |-> input[1][2]]
    ELSE [symbol |-> DefaultSymbol, prices |-> DefaultPrices]

(* the match of build_signal: the pair that is averaged *)
SelectInput(input) ==
    IF input # None /\ input[1][2] # <<>>
    THEN [symbol |-> input[1][1], prices |-> input[1][2]]
    ELSE [symbol |-> DefaultSymbol, prices |-> DefaultPrices]

(* faulty variant of Ema: divides by the length of the default series *)
EmaMut(prices) == Div(Sum(prices), Len(DefaultPrices))

Ema(prices) == Div(Sum(prices), Len(prices))

RiskAllowance == (Notional * RiskPercent) \div 100

(* faulty variant of SleepElapsed: the delay is not awaited *)
SleepElapsedMut(start, t) == t >= start

(* tokio::time::sleep(5 ms) started at start has completed at t *)
SleepElapsed(start, t) == t >= start + SleepMs

(* Instant::elapsed().as_millis() *)
ElapsedMs(start, t) == t - start

(* faulty variant of Uptime: the duration is taken backwards, from the     *)
(* present to the start instant                                            *)
UptimeMut(start, t) == (start - t) \div MsPerSec

(* Instant::elapsed().as_secs() *)
Uptime(start, t) == (t - start) \div MsPerSec

----------------------------------------------------------------------------
(* Connection records *)

Closed == [st |-> "closed"]
Idle == [st |-> "idle"]

Open(c) == conn[c].st \in {"idle", "responded"}

Alive == pc \in {"cli", "parse_addr", "bind", "serving", "idle"}

TypeOK ==
    /\ pc \in {"cli", "parse_addr", "bind", "serving", "idle",
               "exit_cli", "exit_err", "killed"}
    /\ listener \in {"none", "bound", "dropped"}
    /\ handlers \in BOOLEAN
    /\ cause \in {"none", "signal", "server_ok", "server_err"}
    /\ now \in Nat
    /\ appStart \in Nat \cup {-1}
    /\ \A c \in Conns : conn[c].st \in {"closed", "idle", "sleeping", "responded"}

Init ==
    /\ pc = "cli"
    /\ listen = NoListen
    /\ appStart = -1
    /\ listener = "none"
    /\ handlers = FALSE
    /\ cause = "none"
    /\ conn = [c \in Conns |-> Closed]
    /\ now = 0
    /\ healthMax = -1

----------------------------------------------------------------------------
(* main: startup *)

(* Cli::parse() succeeded; AppState { start: Instant::now() } and the      *)
(* router are constructed                                                  *)
CliParse(arg) ==
    /\ pc = "cli"
    /\ listen' = arg
    /\ appStart' = now
    /\ pc' = "parse_addr"
    /\ UNCHANGED <<listener, handlers, cause, conn, now, healthMax>>

(* Cli::parse() ends the process itself (--help, --version, bad flag) *)
CliExit ==
    /\ pc = "cli"
    /\ pc' = "exit_cli"
    /\ UNCHANGED <<listen, appStart, listener, handlers, cause, conn, now, healthMax>>

(* cli.listen.parse(): Err is logged and returned from main *)
ParseAddr ==
    /\ pc = "parse_addr"
    /\ pc' = IF AddrParses(listen) THEN "bind" ELSE "exit_err"
    /\ UNCHANGED <<listen, appStart, listener, handlers, cause, conn, now, healthMax>>

(* TcpListener::bind(addr).await: the operating system decides; on Ok main *)
(* goes on, without suspending, to poll the select!, whose shutdown_signal *)
(* branch installs both signal handlers                                    *)
BindOk ==
    /\ listener' = "bound"
    /\ handlers' = TRUE
    /\ pc' = "serving"

(* faulty variant of BindErr: the bind error is ignored *)
BindErrMut ==
    /\ pc' = "serving"
    /\ UNCHANGED <<listener, handlers>>

BindErr ==
    /\ pc' = "exit_err"
    /\ UNCHANGED <<listener, handlers>>

Bind(ok) ==
    /\ pc = "bind"
    /\ IF ok THEN BindOk ELSE BindErr
    /\ UNCHANGED <<listen, appStart, cause, conn, now, healthMax>>

----------------------------------------------------------------------------
(* main: the select! and what follows it *)

(* faulty variant of AfterSelect: main returns Ok(()) after the select! *)
AfterSelectMut == "exit_ok"

(* where main is after either branch of the select! has run *)
AfterSelect == "idle"

(* faulty variant of ShutdownSignal: the serve future is kept alive (as if *)
(* it ran in a task of its own), so the listener stays bound               *)
ShutdownSignalMut(sig) ==
    /\ pc = "serving"
    /\ handlers
    /\ pc' = "idle"
    /\ cause' = "signal"
    /\ UNCHANGED <<listen, appStart, listener, handlers, conn, now, healthMax>>

(* shutdown_signal() resolved: the serve future, which owns the listener,  *)
(* is dropped; tasks spawned for accepted connections are not owned by it  *)
ShutdownSignal(sig) ==
    /\ pc = "serving"
    /\ handlers
    /\ pc' = AfterSelect
    /\ cause' = "signal"
    /\ listener' = "dropped"
    /\ UNCHANGED <<listen, appStart, handlers, conn, now, healthMax>>

(* the serve future resolved first, with Ok or with Err *)
ServerEnds(err) ==
    /\ pc = "serving"
    /\ pc' = AfterSelect
    /\ cause' = IF err THEN "server_err" ELSE "server_ok"
    /\ listener' = "dropped"
    /\ UNCHANGED <<listen, appStart, handlers, conn, now, healthMax>>

(* loop { sleep(3600 s) }: one turn of the loop *)
IdleLoop ==
    /\ pc = "idle"
    /\ pc' = "idle"
    /\ UNCHANGED <<listen, appStart, listener, handlers, cause, conn, now, healthMax>>

(* SIGINT/SIGTERM once main has left the select!: the handlers tokio       *)
(* installed stay installed, nothing awaits the signal any more            *)
SignalWhileIdle(sig) ==
    /\ pc = "idle"
    /\ handlers
    /\ UNCHANGED vars

(* SIGINT/SIGTERM before shutdown_signal() was first polled: the default   *)
(* disposition ends the process                                            *)
SignalBeforeHandlers(sig) ==
    /\ pc \in {"cli", "parse_addr", "bind"}
    /\ ~handlers
    /\ pc' = "killed"
    /\ UNCHANGED <<listen, appStart, listener, handlers, cause, conn, now, healthMax>>

----------------------------------------------------------------------------
(* Connections and handlers *)

(* the accept loop of the serve future takes a connection and spawns its   *)
(* task                                                                    *)
Connect(c) ==
    /\ pc = "serving"
    /\ listener = "bound"
    /\ conn[c] = Closed
    /\ conn' = [conn EXCEPT ![c] = Idle]
    /\ UNCHANGED <<pc, listen, appStart, listener, handlers, cause, now, healthMax>>

(* the client closes the connection: its task ends and a handler future    *)
(* still pending on it is dropped                                          *)
Disconnect(c) ==
    /\ Alive
    /\ conn[c] # Closed
    /\ conn' = [conn EXCEPT ![c] = Closed]
    /\ UNCHANGED <<pc, listen, appStart, listener, handlers, cause, now, healthMax>>

HealthResponse(t) ==
    [kind |-> "health", status |-> 200, uptime |-> Uptime(appStart, t),
     health |-> "healthy"]

(* GET /health *)
HealthHandler(c) ==
    /\ Alive
    /\ Open(c)
    /\ LET resp == HealthResponse(now)
       IN /\ conn' = [conn EXCEPT ![c] = [st |-> "responded", resp |-> resp]]
          /\ healthMax' = IF resp.uptime > healthMax THEN resp.uptime ELSE healthMax
    /\ UNCHANGED <<pc, listen, appStart, listener, handlers, cause, now>>

(* faulty variant of InputOf: the input is kept in a slot shared by all     *)
(* handlers, so a handler suspended on another connection decides it       *)
InputOfMut(c, input) ==
    IF \E d \in Conns \ {c} : conn[d].st = "sleeping" /\ conn[d].prices # DefaultPrices
    THEN LET d == CHOOSE d \in Conns \ {c} :
                      conn[d].st = "sleeping" /\ conn[d].prices # DefaultPrices
         IN Some(<<conn[d].symbol, conn[d].prices>>)
    ELSE input

(* the input build_signal reads for the request of connection c *)
InputOf(c, input) == input

(* build_signal up to its await: start instant, match, rsi, ema,           *)
(* risk_allowance, then suspended in sleep(5 ms)                           *)
BuildSignal(c, body, input) ==
    LET sel == SelectInput(InputOf(c, input))
    IN conn' = [conn EXCEPT ![c] =
                 [st |-> "sleeping", body |-> body, start |-> now,
                  symbol |-> sel.symbol, prices |-> sel.prices,
                  rsi |-> RSI, ema |-> Ema(sel.prices),
                  risk_allowance |-> RiskAllowance]]

(* GET /execute/signal *)
GetSignalHandler(c) ==
    /\ Alive
    /\ Open(c)
    /\ BuildSignal(c, NoBody, None)
    /\ UNCHANGED <<pc, listen, appStart, listener, handlers, cause, now, healthMax>>

(* the rejection of the Json extractor *)
RejectionStatus(body) ==
    CASE body.kind = "syntax_error" -> 400
      [] body.kind = "data_error" -> 422
      [] body.kind = "no_content_type" -> 415

JsonDecodes(body) == body.kind = "json"

(* faulty variant of PostSignalHandler: a body that does not decode is     *)
(* taken as an absent input instead of being rejected                      *)
PostSignalHandlerMut(c, body) ==
    /\ Alive
    /\ Open(c)
    /\ IF JsonDecodes(body)
       THEN BuildSignal(c, body, Zip(body.value.symbol, body.value.prices))
       ELSE BuildSignal(c, body, None)
    /\ UNCHANGED <<pc, listen, appStart, listener, handlers, cause, now, healthMax>>

(* POST /execute/signal: the Json extractor runs first; the handler body   *)
(* runs only with a decoded SignalRequest                                  *)
PostSignalHandler(c, body) ==
    /\ Alive
    /\ Open(c)
    /\ IF JsonDecodes(body)
       THEN BuildSignal(c, body, Zip(body.value.symbol, body.value.prices))
       ELSE conn' = [conn EXCEPT ![c] =
                      [st |-> "responded",
                       resp |-> [kind |-> "rejection", status |-> RejectionStatus(body)]]]
    /\ UNCHANGED <<pc, listen, appStart, listener, handlers, cause, now, healthMax>>

(* the sleep of build_signal has elapsed: Json(Signal { .. }) is returned  *)
SleepDone(c) ==
    /\ Alive
    /\ conn[c].st = "sleeping"
    /\ SleepElapsed(conn[c].start, now)
    /\ conn' = [conn EXCEPT ![c] =
                 [st |-> "responded",
                  resp |-> [kind |-> "signal", status |-> 200,
                            symbol |-> conn[c].symbol, rsi |-> conn[c].rsi,
                            ema |-> conn[c].ema,
                            risk_allowance |-> conn[c].risk_allowance,
                            latency_ms |-> ElapsedMs(conn[c].start, now)]]]
    /\ UNCHANGED <<pc, listen, appStart, listener, handlers, cause, now, healthMax>>

(* the monotonic clock advances *)
Tick(d) ==
    /\ Alive
    /\ now < MaxTime
    /\ now' = now + d
    /\ UNCHANGED <<pc, listen, appStart, listener, handlers, cause, conn, healthMax>>

Signals == {"SIGINT", "SIGTERM"}

Next ==
    \/ \E arg \in ListenArgs : CliParse(arg)
    \/ CliExit
    \/ ParseAddr
    \/ \E ok \in BOOLEAN : Bind(ok)
    \/ \E sig \in Signals : ShutdownSignal(sig)
    \/ \E err \in BOOLEAN : ServerEnds(err)
    \/ IdleLoop
    \/ \E sig \in Signals : SignalWhileIdle(sig)
    \/ \E sig \in Signals : SignalBeforeHandlers(sig)
    \/ \E c \in Conns : Connect(c)
    \/ \E c \in Conns : Disconnect(c)
    \/ \E c \in Conns : HealthHandler(c)
    \/ \E c \in Conns : GetSignalHandler(c)
    \/ \E c \in Conns, body \in Bodies : PostSignalHandler(c, body)
    \/ \E c \in Conns : SleepDone(c)
    \/ \E d \in TickSteps : Tick(d)

Spec == Init /\ [][Next]_vars

----------------------------------------------------------------------------
(* Vocabulary of the properties *)

SignalResponse(c) == conn[c].st = "responded" /\ conn[c].resp.kind = "signal"
HealthAnswer(c) == conn[c].st = "responded" /\ conn[c].resp.kind = "health"
Rejected(c) == conn[c].st = "responded" /\ conn[c].resp.kind = "rejection"
Sleeping(c) == conn[c].st = "sleeping"

(* 4422.1, the mean of the default series, in tenths *)
DefaultEma == <<44221, 1>>

(* e is the quotient sum(P)/len(P) *)
MeanIs(e, P) == Len(P) > 0 /\ e[2] > 0 /\ e[1] * Len(P) = Sum(P) * e[2]

(* the body carries a symbol and a non-empty prices sequence *)
FullInput(b) ==
    /\ b.kind = "json"
    /\ b.value.symbol # None
    /\ b.value.prices # None
    /\ b.value.prices[1] # <<>>

(* the body carries a non-empty prices sequence *)
HasPrices(b) ==
    /\ b.kind = "json"
    /\ b.value.prices # None
    /\ b.value.prices[1] # <<>>

(* a step of connection c returns the response of its suspended handler *)
Answers(c) == Sleeping(c) /\ conn'[c].st = "responded"

(* C1: a signal request gets the caller's symbol and the mean of the       *)
(* caller's prices only when the body has a symbol and non-empty prices;   *)
(* GET and every partial body get the default pair ("ES", 4422.1); the     *)
(* response carries the pair the handler chose, never a mix                *)
C1_DefaultsAsPair ==
    /\ [](\A c \in Conns :
            /\ Sleeping(c) =>
                 IF FullInput(conn[c].body)
                 THEN /\ conn[c].symbol = conn[c].body.value.symbol[1]
                      /\ MeanIs(conn[c].ema, conn[c].body.value.prices[1])
                 ELSE conn[c].symbol = "ES" /\ conn[c].ema = DefaultEma
            /\ SignalResponse(c) =>
                 (conn[c].resp.symbol = "ES" <=> conn[c].resp.ema = DefaultEma))
    /\ [][\A c \in Conns :
            Answers(c) =>
                 /\ conn'[c].resp.kind = "signal"
                 /\ conn'[c].resp.symbol = conn[c].symbol
                 /\ conn'[c].resp.ema = conn[c].ema]_vars

C1_Witness ==
    \E c, d \in Conns :
        /\ Sleeping(c) /\ conn[c].body.kind = "json"
        /\ conn[c].body.value.symbol # None /\ conn[c].body.value.prices = None
        /\ SignalResponse(d) /\ conn[d].resp.symbol = "NQ"

(* C2 as stated: every non-empty prices sequence P of a POST body yields   *)
(* ema = sum(P)/len(P) in the response, whether or not a symbol is sent    *)
C2_MeanOfAnyPrices ==
    [][\A c \in Conns :
          Answers(c) /\ HasPrices(conn[c].body)
          => MeanIs(conn'[c].resp.ema, conn[c].body.value.prices[1])]_vars

(* C2 amended: a non-empty prices sequence P sent together with a symbol   *)
(* yields ema = sum(P)/len(P) in the response; sent without a symbol it    *)
(* yields the mean of the default series                                   *)
C2_MeanOfPairedPrices ==
    [][\A c \in Conns :
          Answers(c) /\ HasPrices(conn[c].body)
          => IF conn[c].body.value.symbol # None
             THEN MeanIs(conn'[c].resp.ema, conn[c].body.value.prices[1])
             ELSE conn'[c].resp.ema = DefaultEma]_vars

C2_Witness ==
    \E c \in Conns :
        /\ SignalResponse(c)
        /\ conn[c].resp.symbol = "NQ"
        /\ conn[c].resp.ema = <<3005, 2>>

(* C3: once the listener is bound main never returns: it is in the select! *)
(* or in the idle loop; every way out of the select! leads to the idle     *)
(* loop, and nothing, further signals included, leads out of it            *)
C3_NeverExitsAfterBind ==
    /\ [](listener # "none" => pc \in {"serving", "idle"})
    /\ [](pc = "idle" <=> cause # "none")
    /\ [][pc = "serving" /\ pc' # "serving" => pc' = "idle"]_vars
    /\ [][pc = "idle" => pc' = "idle" /\ cause' = cause]_vars

C3_Witness == pc = "idle" /\ cause = "signal" /\ now >= MsPerSec

(* C4: a listen address that does not parse, or a failed bind, ends main   *)
(* with the error before the select!: no listener, no signal handlers, no  *)
(* connection and no request; the select! is entered only with a parsed    *)
(* address and a bound listener                                            *)
C4_StartupFatal ==
    /\ [](pc = "exit_err" =>
            /\ listener = "none" /\ ~handlers /\ cause = "none"
            /\ \A c \in Conns : conn[c] = Closed)
    /\ [](pc \notin {"cli", "exit_cli", "killed"} /\ ~AddrParses(listen) =>
            pc \in {"parse_addr", "exit_err"})
    /\ [](pc \in {"serving", "idle"} => AddrParses(listen) /\ listener # "none")
    /\ [](\A c \in Conns : conn[c] # Closed => AddrParses(listen) /\ listener # "none")
    /\ [][pc = "parse_addr" /\ pc' \notin {"parse_addr", "killed"} =>
            pc' = IF AddrParses(listen) THEN "bind" ELSE "exit_err"]_vars
    /\ [][pc = "bind" /\ pc' \notin {"bind", "killed"} =>
            \/ pc' = "serving" /\ listener' = "bound"
            \/ pc' = "exit_err" /\ listener' = "none"]_vars
    /\ [][pc = "exit_err" => pc' = "exit_err"]_vars

C4_Witness == pc = "exit_err" /\ AddrParses(listen) /\ now > 0

(* C5: a POST body that does not decode is answered with a 4xx status and  *)
(* never starts build_signal; the rejection touches nothing but the        *)
(* connection it came on, which stays open for further requests            *)
C5_MalformedRejected ==
    /\ [](\A c \in Conns :
            /\ Sleeping(c) => conn[c].body.kind \in {"json", "none"}
            /\ Rejected(c) => conn[c].resp.status \in 400..499 /\ Open(c))
    /\ [][\A c \in Conns :
            conn'[c] # conn[c] =>
               \A body \in Bodies :
                  body.kind # "json" /\ PostSignalHandler(c, body) =>
                     /\ conn'[c].st = "responded"
                     /\ conn'[c].resp.kind = "rejection"
                     /\ conn'[c].resp.status \in 400..499
                     /\ \A d \in Conns \ {c} : conn'[d] = conn[d]
                     /\ pc' = pc /\ listener' = listener /\ appStart' = appStart
                     /\ healthMax' = healthMax /\ now' = now]_vars

C5_Witness ==
    \E c, d \in Conns :
        /\ Rejected(c) /\ conn[c].resp.status = 422
        /\ Sleeping(d) /\ conn[d].symbol = "NQ"
        /\ pc = "serving"

(* C6 as stated: once the shutdown signal has won, the listener is gone,   *)
(* no connection is accepted and no response is produced any more, in      *)
(* flight or not, while the process stays alive                            *)
C6_NoResponseAfterShutdown ==
    /\ [](cause = "signal" => pc = "idle" /\ listener = "dropped")
    /\ [][cause = "signal" =>
            \A c \in Conns :
               /\ conn[c] = Closed => conn'[c] = Closed
               /\ ~(conn'[c] # conn[c] /\ conn'[c].st = "responded")]_vars

(* C6 amended: once the shutdown signal has won, the listener is dropped   *)
(* and no new connection is accepted while the process stays alive; the    *)
(* signal cancels no handler: a request in flight on a connection accepted *)
(* before it stays suspended until its sleep elapses and then gets its     *)
(* full response, unless the client closes the connection                  *)
C6_ListenerOnlyCancelled ==
    /\ [](cause = "signal" => pc = "idle" /\ listener = "dropped")
    /\ [](cause = "signal" =>
            \A c \in Conns :
               Sleeping(c) /\ now >= conn[c].start + 5 => ENABLED SleepDone(c))
    /\ [][cause = "signal" =>
            \A c \in Conns : conn[c] = Closed => conn'[c] = Closed]_vars
    /\ [][cause' = "signal" =>
            \A c \in Conns :
               Sleeping(c) =>
                  \/ conn'[c] = conn[c]
                  \/ conn'[c] = Closed /\ cause = "signal"
                  \/ /\ cause = "signal"
                     /\ conn'[c].st = "responded"
                     /\ conn'[c].resp.kind = "signal"
                     /\ conn'[c].resp.symbol = conn[c].symbol
                     /\ conn'[c].resp.ema = conn[c].ema]_vars

C6_Witness ==
    /\ cause = "signal"
    /\ pc = "idle"
    /\ \E c \in Conns : Sleeping(c) /\ now >= conn[c].start + 5

(* C7: every signal response, default or supplied, reports latency_ms >= 5 *)
C7_LatencyAtLeastFive ==
    \A c \in Conns : SignalResponse(c) => conn[c].resp.latency_ms >= 5

C7_Witness ==
    \E c, d \in Conns :
        /\ SignalResponse(c) /\ conn[c].resp.symbol = "ES" /\ conn[c].resp.latency_ms = 5
        /\ SignalResponse(d) /\ conn[d].resp.symbol = "NQ" /\ conn[d].resp.latency_ms > 5

(* C8: every health response says "healthy" with an uptime that is not     *)
(* negative and not below the uptime of any earlier health response;       *)
(* AppState.start never changes once set                                   *)
C8_HealthMonotonic ==
    /\ [](\A c \in Conns :
            HealthAnswer(c) =>
               /\ conn[c].resp.health = "healthy"
               /\ conn[c].resp.uptime >= 0
               /\ conn[c].resp.uptime <= healthMax)
    /\ [][\A c \in Conns :
            HealthHandler(c) => conn'[c].resp.uptime >= healthMax]_vars
    /\ [][appStart # -1 => appStart' = appStart]_vars

C8_Witness ==
    \E c, d \in Conns :
        /\ HealthAnswer(c) /\ conn[c].resp.uptime = 0
        /\ HealthAnswer(d) /\ conn[d].resp.uptime = 1
        /\ appStart > 0

(* C9: whatever reaches build_signal, the handler holds rsi 55.0 and       *)
(* risk_allowance 1500.0 and averages a non-empty sequence (the quotient   *)
(* is a number), and the response carries the same constants               *)
C9_NoErrorPath ==
    \A c \in Conns :
        /\ Sleeping(c) =>
             /\ Len(conn[c].prices) > 0
             /\ conn[c].ema[2] # 0
             /\ conn[c].rsi = 55
             /\ conn[c].risk_allowance = 1500
        /\ SignalResponse(c) =>
             /\ conn[c].resp.status = 200
             /\ conn[c].resp.ema[2] # 0
             /\ conn[c].resp.rsi = 55
             /\ conn[c].resp.risk_allowance = 1500

C9_Witness ==
    \E c, d \in Conns :
        /\ Sleeping(c) /\ conn[c].body.kind = "json"
        /\ conn[c].body.value.symbol # None
        /\ conn[c].body.value.prices = Some(<<>>)
        /\ Sleeping(d) /\ conn[d].body.kind = "none"

(* what build_signal holds for a body, read off the body alone *)
OwnPair(b) ==
    IF FullInput(b)
    THEN [symbol |-> b.value.symbol[1], prices |-> b.value.prices[1]]
    ELSE [symbol |-> "ES", prices |-> DefaultPrices]

(* one body of each shape: the three undecodable ones, an empty object, a  *)
(* symbol alone, and each full input of one price                          *)
ProbeBodies ==
    {b \in Bodies : b.kind # "json" \/ b.value.prices = None
                        \/ (FullInput(b) /\ Len(b.value.prices[1]) = 1)}

(* C10: while the process runs, a handler suspended in its sleep blocks no *)
(* other connection: every request can start on any other open connection *)
(* and any other handler whose sleep has elapsed can answer; a step of one *)
(* connection changes no other, and what a handler holds and answers is    *)
(* decided by its own body alone                                           *)
C10_Independent ==
    /\ [](\A c \in Conns : \A d \in Conns \ {c} :
            Sleeping(c) =>
               /\ Open(d) =>
                    /\ ENABLED HealthHandler(d)
                    /\ ENABLED GetSignalHandler(d)
                    /\ \A body \in ProbeBodies : ENABLED PostSignalHandler(d, body)
               /\ Sleeping(d) /\ now >= conn[d].start + 5 => ENABLED SleepDone(d))
    /\ [](\A c \in Conns :
            Sleeping(c) =>
               /\ conn[c].symbol = OwnPair(conn[c].body).symbol
               /\ conn[c].prices = OwnPair(conn[c].body).prices
               /\ MeanIs(conn[c].ema, OwnPair(conn[c].body).prices)
               /\ conn[c].rsi = 55
               /\ conn[c].risk_allowance = 1500)
    /\ [][\A c \in Conns :
            /\ conn'[c] # conn[c] => \A d \in Conns \ {c} : conn'[d] = conn[d]
            /\ Answers(c) =>
                 /\ conn'[c].resp.symbol = conn[c].symbol
                 /\ conn'[c].resp.ema = conn[c].ema
                 /\ conn'[c].resp.rsi = conn[c].rsi
                 /\ conn'[c].resp.risk_allowance = conn[c].risk_allowance]_vars

C10_Witness ==
    \E c, d \in Conns :
        /\ Sleeping(c) /\ conn[c].symbol = "NQ"
        /\ SignalResponse(d) /\ conn[d].resp.symbol = "ES"
        /\ now < conn[c].start + 5

====
